---- MODULE Spec2Model ----
(***************************************************************************)
(* A model of moltbot.py: one run of main() at a time against one state    *)
(* record (moltbot_state.json), the posting gate can_post_now, the claim   *)
(* precondition ensure_claimed, and the classification of platform         *)
(* responses by molt_get / molt_post.                                      *)
(*                                                                         *)
(* Time is an integer number of ticks, TicksPerSecond ticks to the second, *)
(* so that datetime's sub-second part (and int()'s rounding of a wait) is  *)
(* represented.  A UTC calendar day is TicksPerDay ticks.                  *)
(***************************************************************************)
EXTENDS Integers, Sequences, FiniteSets, TLC

\* ---------------------------------------------------------------- config

POSTS_PER_DAY_CAP == 3
POST_COOLDOWN_SECONDS == 1800
RETRY_TOTAL == 3
RETRY_STATUS == {429, 500, 502, 503, 504}

\* ---------------------------------------------------------------- bounds

\* clock resolution: ticks per second
TicksPerSecond == 2
\* number of runs of main() in one behaviour
MaxRuns == 4
\* how far the clock may advance, in half cooldowns after the start
MaxHalves == 5
\* redirects followed in one run, where they are counted
MaxRedirects == 1

\* ------------------------------------------------------------------ time

TicksPerDay == 24 * 60 * 60 * TicksPerSecond
CooldownTicks == POST_COOLDOWN_SECONDS * TicksPerSecond
\* midnight that opens day 1
Midnight == TicksPerDay
\* the clock of the model: it starts half a cooldown before midnight and
\* advances by half a cooldown at a time, up to MaxTime
HalfCooldown == CooldownTicks \div 2
StartTime == Midnight - HalfCooldown
MaxTime == StartTime + MaxHalves * HalfCooldown

\* now_utc().date().isoformat(): the calendar day of an instant
iso_today_utc(t) == t \div TicksPerDay

\* datetime.isoformat() of an aware UTC instant: date, time of day, offset
isoformat(t) ==
    [kind |-> "iso", date |-> t \div TicksPerDay, tod |-> t % TicksPerDay,
     tz |-> "utc"]

\* datetime.fromisoformat() of a well-formed text: the instant it names
fromisoformat(s) == s.date * TicksPerDay + s.tod

\* int(x) of a float x = n / d (d > 0): truncation toward zero
int_trunc(n, d) == IF n >= 0 THEN n \div d ELSE -((-n) \div d)

\* ------------------------------------------------- last_post_at values

NULL == [kind |-> "null", date |-> 0, tod |-> 0, tz |-> "none"]
EMPTY == [kind |-> "empty", date |-> 0, tod |-> 0, tz |-> "none"]
GARBAGE == [kind |-> "garbage", date |-> 0, tod |-> 0, tz |-> "none"]
\* a well-formed ISO text without a UTC offset (a naive datetime)
naive(t) == [isoformat(t) EXCEPT !.tz = "naive"]

\* Python truthiness of state.get("last_post_at"): None and "" are falsy
truthy(last) == last.kind \notin {"null", "empty"}

\* lines 305-306 complete without raising: the text parses and the
\* subtraction now_utc() - last_dt is between two aware datetimes
timestamp_ok(last) == last.kind = "iso" /\ last.tz = "utc"

\* ------------------------------------------------------------ the gate

ALLOWED == "allowed"

day_reset_keeps_last(state, today) ==
    IF state.date_utc # today
    THEN [date_utc |-> today, posts_today |-> 0,
          last_post_at |-> state.last_post_at]
    ELSE state

\* lines 294-297: reset the daily counters if the day changed
day_reset(state, today) ==
    IF state.date_utc # today
    THEN [date_utc |-> today, posts_today |-> 0, last_post_at |-> NULL]
    ELSE state

cap_reached_gt(state) == state.posts_today > POSTS_PER_DAY_CAP

\* line 299
cap_reached(state) == state.posts_today >= POSTS_PER_DAY_CAP

cooldown_active_le(elapsed) == elapsed <= CooldownTicks

\* line 307: elapsed < POST_COOLDOWN_SECONDS, elapsed in ticks
cooldown_active(elapsed) == elapsed < CooldownTicks

cooldown_remain_ceil(elapsed) ==
    int_trunc(CooldownTicks - elapsed + TicksPerSecond - 1, TicksPerSecond)

\* line 308: int(POST_COOLDOWN_SECONDS - elapsed)
cooldown_remain(elapsed) == int_trunc(CooldownTicks - elapsed, TicksPerSecond)

corrupt_timestamp_kept(state) == state

\* lines 310-312: a corrupt timestamp is ignored
corrupt_timestamp(state) == [state EXCEPT !.last_post_at = NULL]

can_post_now_cooldown_first(state, t1, t2) ==
    LET s1 == day_reset(state, iso_today_utc(t1))
        last == s1.last_post_at
    IN  IF truthy(last) /\ timestamp_ok(last)
           /\ cooldown_active(t2 - fromisoformat(last))
        THEN [state |-> s1, reason |-> "cooldown",
              remain |-> cooldown_remain(t2 - fromisoformat(last))]
        ELSE IF cap_reached(s1)
        THEN [state |-> s1, reason |-> "daily_cap", remain |-> 0]
        ELSE IF truthy(last) /\ ~timestamp_ok(last)
        THEN [state |-> corrupt_timestamp(s1), reason |-> ALLOWED, remain |-> 0]
        ELSE [state |-> s1, reason |-> ALLOWED, remain |-> 0]

\* can_post_now(state), reading the clock at t1 (line 293) and t2 (line 306).
\* The result carries the mutated state, the reason (ALLOWED for None) and
\* the remaining wait of a cooldown denial.
can_post_now(state, t1, t2) ==
    LET s1 == day_reset(state, iso_today_utc(t1))
        last == s1.last_post_at
    IN  IF cap_reached(s1)
        THEN [state |-> s1, reason |-> "daily_cap", remain |-> 0]
        ELSE IF ~truthy(last)
        THEN [state |-> s1, reason |-> ALLOWED, remain |-> 0]
        ELSE IF ~timestamp_ok(last)
        THEN [state |-> corrupt_timestamp(s1), reason |-> ALLOWED, remain |-> 0]
        ELSE IF cooldown_active(t2 - fromisoformat(last))
        THEN [state |-> s1, reason |-> "cooldown",
              remain |-> cooldown_remain(t2 - fromisoformat(last))]
        ELSE [state |-> s1, reason |-> ALLOWED, remain |-> 0]

\* ------------------------------------------------------- state store

load_state_ignores_file(ok, rec, t) ==
    [date_utc |-> iso_today_utc(t), posts_today |-> 0, last_post_at |-> NULL]

\* lines 102-114: the record in the file, or a fresh one when the file is
\* missing or unreadable
load_state(ok, rec, t) ==
    IF ok THEN rec
    ELSE [date_utc |-> iso_today_utc(t), posts_today |-> 0,
          last_post_at |-> NULL]

\* ------------------------------------------------------ HTTP responses

\* What HTTP.get / HTTP.post hands back once urllib3 stops retrying:
\*   kind "response" with a status code and a body, or an exception:
\*   kind "timeout" (requests.exceptions.Timeout) or "network_error"
\*   (any other RequestException).
\* A body is non-JSON text, JSON that is not an object, or a JSON object
\* with some of the keys success / error / status / retry_after_minutes
\* ("absent" and -1 stand for a missing key).
Body(kind, success, error, status, retry) ==
    [kind |-> kind, success |-> success, error |-> error, status |-> status,
     retry_after_minutes |-> retry]

NoBody == Body("non_json", "absent", "absent", "absent", -1)
ArrayBody == Body("json_other", "absent", "absent", "absent", -1)

Response(kind, code, body) == [kind |-> kind, code |-> code, body |-> body]

\* A Python value returned by molt_get / molt_post: kind "dict", "nondict"
\* (a list, string, number or null parsed from the body) or "raise" (an
\* AttributeError left the function).  http_status 0: key not set.
Dict(kind, success, error, status, retry, http) ==
    [kind |-> kind, success |-> success, error |-> error, status |-> status,
     retry_after_minutes |-> retry, http_status |-> http]

Raised == Dict("raise", "absent", "absent", "absent", -1, 0)
NoResult == Dict("none", "absent", "absent", "absent", -1, 0)

\* lines 120-124
safe_json(body) ==
    IF body.kind = "non_json"
    THEN Dict("dict", "false", "non_json_response", "absent", -1, 0)
    ELSE IF body.kind = "json_other"
    THEN Dict("nondict", "absent", "absent", "absent", -1, 0)
    ELSE Dict("dict", body.success, body.error, body.status,
              body.retry_after_minutes, 0)

\* dict.setdefault(key, value)
setdefault(j, key, value) ==
    IF j[key] = "absent" THEN [j EXCEPT ![key] = value] ELSE j

\* the dict built in lines 131/133/136 (and 156/158/161)
failure(error) == Dict("dict", "false", error, "absent", -1, 0)

\* lines 138-142 (and 170-174): an error status keeps the payload's fields
http_error(r) ==
    LET j == safe_json(r.body)
    IN  IF j.kind # "dict" THEN Raised
        ELSE [setdefault(j, "success", "false") EXCEPT !.http_status = r.code]

\* lines 126-144
molt_get(r) ==
    IF r.kind = "timeout" THEN failure("timeout")
    ELSE IF r.kind = "network_error" THEN failure("network_error")
    ELSE IF r.code = 401 THEN failure("unauthorized")
    ELSE IF r.code >= 400 THEN http_error(r)
    ELSE safe_json(r.body)

\* lines 163-168
rate_limited(r) ==
    LET j == safe_json(r.body)
    IN  IF j.kind # "dict" THEN Raised
        ELSE [setdefault(setdefault(j, "success", "false"),
                         "error", "rate_limited")
              EXCEPT !.http_status = 429]

\* lines 146-176
molt_post(r) ==
    IF r.kind = "timeout" THEN failure("timeout")
    ELSE IF r.kind = "network_error" THEN failure("network_error")
    ELSE IF r.code = 401 THEN failure("unauthorized")
    ELSE IF r.code = 429 THEN rate_limited(r)
    ELSE IF r.code >= 400 THEN http_error(r)
    ELSE safe_json(r.body)

\* lines 278-289: TRUE when ensure_claimed returns, FALSE when it raises
\* (j.get on a value that is not a dict raises AttributeError)
ensure_claimed(j) ==
    /\ j.kind = "dict"
    /\ j.error # "unauthorized"
    /\ j.success # "false"
    /\ j.status = "claimed"

\* lines 362-368: what main does with the result of create_post
post_result(res) ==
    IF res.kind # "dict" THEN "fatal"
    ELSE IF res.error = "rate_limited" THEN "rate_limited"
    ELSE IF res.success = "false" THEN "fatal"
    ELSE "posted"

\* line 363: int(res.get("retry_after_minutes", 30) * 60)
advisory_wait(res) ==
    IF res.retry_after_minutes = -1 THEN 30 * 60
    ELSE res.retry_after_minutes * 60

success_mutation_keeps_last(state, t) ==
    [state EXCEPT !.posts_today = state.posts_today + 1]

\* lines 371-372: the success mutation
success_mutation(state, t) ==
    [state EXCEPT !.posts_today = state.posts_today + 1,
                  !.last_post_at = isoformat(t)]

\* ------------------------------------------------------------- strings

\* A Python str, as the sequence of its runs of equal characters:
\* [c |-> character, n |-> length of the run].  Characters are told apart
\* as far as the code does: "a" any character of a word, " " the space,
\* "\n" any other whitespace (newline, tab), "..." the ellipsis U+2026.
Run(c, n) == [c |-> c, n |-> n]
ELLIPSIS == "..."
Whitespace == {" ", "\n"}

\* words of the given lengths, one space between them
RECURSIVE Words(_)
Words(lens) ==
    IF lens = <<>> THEN <<>>
    ELSE IF Len(lens) = 1 THEN <<Run("a", lens[1])>>
    ELSE <<Run("a", lens[1]), Run(" ", 1)>> \o Words(Tail(lens))

\* len(s)
RECURSIVE len(_)
len(s) == IF s = <<>> THEN 0 ELSE Head(s).n + len(Tail(s))

\* s.lstrip(), s.rstrip(), s.strip()
RECURSIVE lstrip(_)
lstrip(s) ==
    IF s = <<>> THEN <<>>
    ELSE IF Head(s).c \in Whitespace THEN lstrip(Tail(s))
    ELSE s

RECURSIVE rstrip(_)
rstrip(s) ==
    IF s = <<>> THEN <<>>
    ELSE IF s[Len(s)].c \in Whitespace THEN rstrip(SubSeq(s, 1, Len(s) - 1))
    ELSE s

strip(s) == rstrip(lstrip(s))

\* s[:k]
RECURSIVE take(_, _)
take(s, k) ==
    IF s = <<>> \/ k <= 0 THEN <<>>
    ELSE IF Head(s).n <= k THEN <<Head(s)>> \o take(Tail(s), k - Head(s).n)
    ELSE <<Run(Head(s).c, k)>>

\* the runs of spaces of s
Spaces(s) == {i \in DOMAIN s : s[i].c = " "}

\* s.rsplit(" ", 1)[0]: what stands before the last space of s, or s
\* itself when it has no space
rsplit(s) ==
    IF Spaces(s) = {} THEN s
    ELSE LET i == CHOOSE j \in Spaces(s) : \A k \in Spaces(s) : k <= j
         IN  SubSeq(s, 1, i - 1)
             \o (IF s[i].n > 1 THEN <<Run(" ", s[i].n - 1)>> ELSE <<>>)

\* s + "..." (one character)
add_ellipsis(s) ==
    IF s # <<>> /\ s[Len(s)].c = ELLIPSIS
    THEN SubSeq(s, 1, Len(s) - 1) \o <<Run(ELLIPSIS, s[Len(s)].n + 1)>>
    ELSE s \o <<Run(ELLIPSIS, 1)>>

\* ------------------------------------------------------- generate_post

TITLE_MAX == 80
CONTENT_MAX == 1200
CONTENT_MIN == 20

\* "On Shared Light"
DEFAULT_TITLE == Words(<<2, 6, 5>>)
\* the sentence of line 269 (109 characters)
FALLBACK ==
    Words(<<4, 5, 1, 5, 4, 4, 2, 2, 4, 3, 6, 5, 12, 6, 5, 3, 6, 15>>)

\* A JSON value under a key of the reply: t is "absent" (no such key),
\* "null", "string" (s is the text), "zero" (the number 0), "number"
\* (another number) or "array" (a list that is not empty).
Val(t, s) == [t |-> t, s |-> s]
Str(s) == Val("string", s)

\* Python's truth value of a JSON value
is_true(v) == v.t \in {"number", "array"} \/ (v.t = "string" /\ v.s # <<>>)

\* The text of the model's reply: json is "invalid" (json.loads raises
\* JSONDecodeError; text is what the model wrote), "object" (title and
\* content are the values under these keys) or "other" (a JSON array,
\* string, number or null).
Reply(json, text, title, content) ==
    [json |-> json, text |-> text, title |-> title, content |-> content]

\* What HTTP.post to the model ended with: kind "ok" (a status below 400
\* and a body with message.content = reply), "timeout", "network_error"
\* or "http_error" (a status of 400 or more).
Chat(kind, reply) == [kind |-> kind, reply |-> reply]

\* what generate_post returns (kind "ok") or raises
Post(kind, title, content) ==
    [kind |-> kind, title |-> title, content |-> content]

\* lines 262-265: t[:max].rsplit(" ", 1)[0] + "..." when t is too long
truncate(t, max) ==
    IF len(t) > max THEN add_ellipsis(rsplit(take(t, max))) ELSE t

\* lines 247-271, with the ollama_chat of lines 183-200 behind line 249
generate_post(c) ==
    IF c.kind # "ok" THEN Post("RuntimeError", <<>>, <<>>)
    ELSE
    LET raw == c.reply
        data == IF raw.json = "invalid"
                THEN Reply("object", <<>>, Str(DEFAULT_TITLE),
                           Str(strip(strip(raw.text))))
                ELSE raw
    IN  IF data.json # "object"
        THEN Post("AttributeError", <<>>, <<>>)
        ELSE IF is_true(data.title) /\ data.title.t # "string"
        THEN Post("AttributeError", <<>>, <<>>)
        ELSE IF is_true(data.content) /\ data.content.t # "string"
        THEN Post("AttributeError", <<>>, <<>>)
        ELSE
        LET title0 == strip(IF is_true(data.title) THEN data.title.s
                            ELSE DEFAULT_TITLE)
            content0 == strip(IF is_true(data.content) THEN data.content.s
                              ELSE <<>>)
            title == truncate(title0, TITLE_MAX)
            content1 == truncate(content0, CONTENT_MAX)
            content == IF len(content1) < CONTENT_MIN THEN FALLBACK
                       ELSE content1
        IN  Post("ok", title, content)

\* ---------------------------------------------------------------- state

VARIABLES
    now,        \* the UTC clock, in ticks
    file_ok,    \* moltbot_state.json exists and parses
    file,       \* the record in moltbot_state.json
    state,      \* main's local `state` dict
    pc,         \* where main is: idle (no process), status, gate, generate,
                \* post, done (main has returned or raised)
    runs,       \* runs of main() started so far
    attempts,   \* attempts of the current HTTP call that urllib3 will retry
    http,       \* the last response handed to molt_get / molt_post
    res,        \* the last value molt_get / molt_post returned
    pre,        \* `state` as it was passed to can_post_now
    t_today,    \* the clock read of line 293
    t_now,      \* the clock read of line 306
    reason,     \* what can_post_now returned in this run ("none": not called)
    remain,     \* the wait of a cooldown denial
    outcome,    \* how the last run ended ("running" while one is under way)
    wait,       \* the advisory wait printed at line 364
    accepted,   \* history: posts the platform created for this run's POSTs
    tried,      \* history: how the last attempt that was sent again had ended
    hops,       \* history: the redirects followed so far
    chat,       \* what the model call of generate_post ended with
    post,       \* what generate_post returned (or raised)
    cpc,        \* overlapping runs: where each of the two processes is
    cstate,     \* overlapping runs: each process's local `state` dict
    cres,       \* overlapping runs: the answer to each process's submission
    flen,       \* overlapping runs: characters written into the state file
                \* since a process last emptied it
    counted,    \* history: the record dates of the posts the runs counted
    overlapped, \* history: a run started while another was under way
    posted      \* history: the instants of the posts the platform accepted
                \* and main confirmed, oldest first

vars == <<now, file_ok, file, state, pc, runs, attempts, http, res, pre,
          t_today, t_now, reason, remain, outcome, wait, accepted, tried,
          hops, chat, post, cpc, cstate, cres, flen, counted, overlapped,
          posted>>

\* the platform's side of the calls
platform == <<accepted, tried, hops>>
\* the content generator on its own, and two runs side by side
gen == <<chat, post>>
conc == <<cpc, cstate, cres, flen, counted, overlapped>>
\* what the runs of Spec do not follow
side == <<platform, gen, conc>>

FreshState(t) == load_state(FALSE, NULL, t)
NoState == [date_utc |-> 0, posts_today |-> 0, last_post_at |-> NULL]
NoHttp == [call |-> "none", kind |-> "none", code |-> 0]

\* ------------------------------------------------------ input domains

Codes == {200, 401, 404, 413, 429, 500}
Tristate == {"absent", "true", "false"}

StatusBodies ==
    {NoBody, ArrayBody} \cup
    {Body("json_object", s, "absent", st, -1) :
        s \in Tristate, st \in {"absent", "claimed", "pending_claim"}}

PostBodies ==
    {NoBody, ArrayBody} \cup
    {Body("json_object", s, e, "absent", -1) :
        s \in Tristate, e \in {"absent", "rate_limited", "slow_down"}}
    \cup {Body("json_object", "absent", "absent", "absent", 1)}

\* What one HTTP attempt can end with: a response with a status code, a
\* connection failure or a read timeout.
\* How one attempt of a call ends: kind "response" with a status code and
\* perhaps a header that matters to the session (hdr "retry_after": a
\* Retry-After header, "location": a Location header, "none"), or
\* "connect_error" (no connection), "connect_timeout" or "read_timeout"
\* (the request was sent and no answer came in time).
Attempt(kind, code, hdr) ==
    [kind |-> kind, code |-> code, hdr |-> hdr, body |-> NoBody]

NoAttempt == Attempt("none", 0, "none")

\* urllib3's Retry.RETRY_AFTER_STATUS_CODES and requests' REDIRECT_STATI,
\* which make_session leaves as they are
RETRY_AFTER_STATUS_CODES == {413, 429, 503}
REDIRECT_STATI == {301, 302, 303, 307, 308}

AttemptOutcomes ==
    {Attempt("response", c, "none") : c \in Codes}
    \cup {Attempt("response", 413, "retry_after"),
          Attempt("response", 307, "location")}
    \cup {Attempt(k, 0, "none") :
            k \in {"connect_error", "connect_timeout", "read_timeout"}}

should_retry_any_error(o, att) ==
    /\ att < RETRY_TOTAL
    /\ \/ o.kind \in {"connect_error", "connect_timeout", "read_timeout"}
       \/ o.kind = "response" /\ o.code >= 400

\* lines 50-60: Retry(total, connect, read, status = RETRY_TOTAL,
\* status_forcelist = RETRY_STATUS, allowed_methods with GET and POST,
\* respect_retry_after_header = True): after `att` retries, an attempt
\* that ended with o is sent again when retries are left and o is a
\* connection failure, a timeout, a status of the force list, or a status
\* of RETRY_AFTER_STATUS_CODES that comes with a Retry-After header
should_retry(o, att) ==
    /\ att < RETRY_TOTAL
    /\ \/ o.kind \in {"connect_error", "connect_timeout", "read_timeout"}
       \/ o.kind = "response" /\ o.code \in RETRY_STATUS
       \/ /\ o.kind = "response"
          /\ o.hdr = "retry_after"
          /\ o.code \in RETRY_AFTER_STATUS_CODES

\* HTTP.get / HTTP.post follow a redirect (allow_redirects is left at its
\* default): the request goes out again, to the Location of the answer,
\* with urllib3's retries counted anew
is_redirect(o) ==
    /\ o.kind = "response"
    /\ o.code \in REDIRECT_STATI
    /\ o.hdr = "location"

\* What a call can end with after `att` retried attempts: a response that
\* is not sent again (raise_on_status = False hands back the last response
\* of the force list); requests.exceptions.Timeout, which only connect
\* timeouts that are not retried any more end in; or another
\* RequestException: connection failures and read timeouts that are not
\* retried any more, and at any attempt a body that breaks off or stalls
\* after the status line (requests reads it outside urllib3's retries).
FinalResponses(att, bodies) ==
    {Response("response", c, b) : c \in {k \in Codes :
        ~should_retry(Attempt("response", k, "none"), att)}, b \in bodies}
    \cup {Response("network_error", 0, NoBody)}
    \cup (IF ~should_retry(Attempt("connect_timeout", 0, "none"), att)
          THEN {Response("timeout", 0, NoBody)}
          ELSE {})

\* How many posts the platform may have created for one POST /posts
\* attempt that ended with r: one when it answered 2xx without
\* success = false; perhaps one when the answer was lost (a read timeout,
\* or the RequestException that ends the call after one or after a broken
\* body); none when it answered with a redirect, an error status or
\* success = false, or was never reached (no connection, Timeout).
may_create(r) ==
    IF r.kind = "response"
    THEN IF r.code < 300 /\ r.body.success # "false" THEN {1} ELSE {0}
    ELSE IF r.kind \in {"read_timeout", "network_error"} THEN {0, 1}
    ELSE {0}

\* no model call made yet
NoChat == Chat("none", Reply("invalid", <<>>, Val("absent", <<>>),
                             Val("absent", <<>>)))
NoPost == Post("none", <<>>, <<>>)

GenIdle ==
    /\ chat = NoChat
    /\ post = NoPost

Procs == {1, 2}
NoResponse == Response("none", 0, NoBody)

\* no second process
ConcIdle ==
    /\ cpc = [p \in Procs |-> "idle"]
    /\ cstate = [p \in Procs |-> NoState]
    /\ cres = [p \in Procs |-> NoResponse]
    /\ flen = 0
    /\ overlapped = FALSE

\* the persisted records a first run may find
InitLast == {NULL, GARBAGE, isoformat(StartTime - HalfCooldown)}

InitStates ==
    [date_utc : {iso_today_utc(StartTime) - 1, iso_today_utc(StartTime)},
     posts_today : {0, POSTS_PER_DAY_CAP - 1, POSTS_PER_DAY_CAP},
     last_post_at : InitLast]

InitCommon ==
    /\ runs = 0
    /\ attempts = 0
    /\ http = NoHttp
    /\ res = NoResult
    /\ t_today = 0
    /\ t_now = 0
    /\ reason = "none"
    /\ remain = 0
    /\ outcome = "none"
    /\ wait = 0
    /\ accepted = 0
    /\ tried = NoAttempt
    /\ hops = 0
    /\ GenIdle
    /\ ConcIdle
    /\ posted = <<>>

Init ==
    /\ counted = <<>>
    /\ now = StartTime
    /\ \/ file_ok = FALSE /\ file = FreshState(StartTime)
       \/ file_ok = TRUE /\ file \in InitStates
    /\ state = NoState
    /\ pre = NoState
    /\ pc = "idle"
    /\ InitCommon

\* ---------------------------------------------------------------- steps

\* time passes: between runs, and while a run waits for the model to
\* write the post (the gate is behind it, the submission ahead)
Tick ==
    /\ pc \in {"idle", "generate"}
    /\ now + HalfCooldown <= MaxTime
    /\ now' = now + HalfCooldown
    /\ UNCHANGED <<file_ok, file, state, pc, runs, attempts, http, res, pre,
                   t_today, t_now, reason, remain, outcome, wait, posted>>
    /\ UNCHANGED side

\* lines 326-342: a run starts, loads the state and sends the status query
main_load ==
    /\ pc = "idle"
    /\ runs < MaxRuns
    /\ runs' = runs + 1
    /\ state' = load_state(file_ok, file, now)
    /\ pre' = load_state(file_ok, file, now)
    /\ pc' = "status"
    /\ outcome' = "running"
    /\ UNCHANGED <<now, file_ok, file, attempts, http, res, t_today, t_now,
                   reason, remain, wait, posted>>
    /\ UNCHANGED side

\* the process ends: its locals are gone, the file stays
main_exit ==
    /\ pc = "done"
    /\ pc' = "idle"
    /\ state' = NoState
    /\ pre' = NoState
    /\ attempts' = 0
    /\ http' = NoHttp
    /\ res' = NoResult
    /\ t_today' = 0
    /\ t_now' = 0
    /\ reason' = "none"
    /\ remain' = 0
    /\ outcome' = "none"
    /\ wait' = 0
    /\ UNCHANGED <<now, file_ok, file, runs, posted>>
    /\ UNCHANGED side

\* lines 50-60: an attempt of the current call ends with o and the request
\* is sent again: urllib3 retries it, or requests follows the redirect
retry_step(o) ==
    /\ pc \in {"status", "post"}
    /\ should_retry(o, attempts) \/ is_redirect(o)
    /\ attempts' = IF is_redirect(o) THEN 0 ELSE attempts + 1
    /\ UNCHANGED <<now, file_ok, file, state, pc, runs, http, res, pre,
                   t_today, t_now, reason, remain, outcome, wait, posted>>

http_retry ==
    /\ \E o \in AttemptOutcomes : retry_step(o)
    /\ UNCHANGED side

\* lines 342, 278-289: the status query ends; main goes on or the run aborts
main_ensure_claimed ==
    /\ pc = "status"
    /\ \E r \in FinalResponses(attempts, StatusBodies) :
        /\ http' = [call |-> "status", kind |-> r.kind, code |-> r.code]
        /\ res' = molt_get(r)
        /\ IF ensure_claimed(molt_get(r))
           THEN pc' = "gate" /\ outcome' = outcome
           ELSE pc' = "done" /\ outcome' = "fatal"
    /\ attempts' = 0
    /\ UNCHANGED <<now, file_ok, file, state, runs, pre, t_today, t_now,
                   reason, remain, wait, posted>>
    /\ UNCHANGED side

\* lines 345-349: the gate; a denial is saved and ends the run.  d is the
\* time between the clock reads of lines 293 and 306.
main_gate(d) ==
    /\ pc = "gate"
    /\ LET g == can_post_now(state, now, now + d)
        IN  /\ now' = now + d
            /\ pre' = state
            /\ t_today' = now
            /\ t_now' = now + d
            /\ state' = g.state
            /\ reason' = g.reason
            /\ remain' = g.remain
            /\ IF g.reason # ALLOWED
               THEN /\ file' = g.state
                    /\ file_ok' = TRUE
                    /\ pc' = "done"
                    /\ outcome' = "denied"
               ELSE /\ UNCHANGED <<file, file_ok>>
                    /\ pc' = "generate"
                    /\ outcome' = outcome
    /\ UNCHANGED <<runs, attempts, http, res, wait, posted>>
    /\ UNCHANGED side

\* lines 352-353: generate_post returns a post, or raises
main_generate_post ==
    /\ pc = "generate"
    /\ \/ pc' = "post" /\ outcome' = outcome
       \/ pc' = "done" /\ outcome' = "fatal"
    /\ UNCHANGED <<now, file_ok, file, state, runs, attempts, http, res, pre,
                   t_today, t_now, reason, remain, wait, posted>>
    /\ UNCHANGED side

\* lines 360-375: the submission ends with r and main acts on its result
create_post_step(r) ==
    /\ pc = "post"
    /\ LET j == molt_post(r)
           what == post_result(j)
       IN  /\ http' = [call |-> "post", kind |-> r.kind, code |-> r.code]
           /\ res' = j
           /\ outcome' = what
           /\ wait' = IF what = "rate_limited" THEN advisory_wait(j) ELSE 0
           /\ IF what = "posted"
              THEN /\ state' = success_mutation(state, now)
                   /\ file' = success_mutation(state, now)
                   /\ file_ok' = TRUE
                   /\ posted' = IF r.kind = "response" /\ r.code < 400
                                THEN Append(posted, now) ELSE posted
              ELSE UNCHANGED <<state, file, file_ok, posted>>
    /\ pc' = "done"
    /\ attempts' = 0
    /\ UNCHANGED <<now, runs, pre, t_today, t_now, reason, remain>>

main_create_post ==
    /\ \E r \in FinalResponses(attempts, PostBodies) : create_post_step(r)
    /\ UNCHANGED side

Next ==
    \/ Tick
    \/ main_load
    \/ main_exit
    \/ http_retry
    \/ main_ensure_claimed
    \/ main_gate(0)
    \/ main_generate_post
    \/ main_create_post

Spec == Init /\ [][Next]_vars

\* ------------------------------------------- the gate on its own inputs

\* The gate applied to every record of a bounded input domain: any date
\* around today, counters below, at and above the cap, and every shape of
\* last_post_at, evaluated just before, at and well after midnight.
GateTimes == {Midnight - 1, Midnight, Midnight + CooldownTicks + 1}

ElapsedSet ==
    {-1, 0, 1, TicksPerSecond + 1, CooldownTicks - TicksPerSecond - 1,
     CooldownTicks - 1, CooldownTicks, CooldownTicks + 1, TicksPerDay}

GateStates(t) ==
    [date_utc : {iso_today_utc(t) - 1, iso_today_utc(t), iso_today_utc(t) + 1},
     posts_today : 0..(POSTS_PER_DAY_CAP + 1),
     last_post_at : {NULL, EMPTY, GARBAGE, naive(t - CooldownTicks)}
                    \cup {isoformat(t - e) : e \in ElapsedSet}]

InitGate ==
    /\ now \in GateTimes
    /\ file_ok = TRUE
    /\ file \in GateStates(now)
    /\ state = file
    /\ pre = file
    /\ pc = "gate"
    /\ runs = 1
    /\ attempts = 0
    /\ http = NoHttp
    /\ res = NoResult
    /\ t_today = 0
    /\ t_now = 0
    /\ reason = "none"
    /\ remain = 0
    /\ outcome = "running"
    /\ wait = 0
    /\ accepted = 0
    /\ tried = NoAttempt
    /\ hops = 0
    /\ GenIdle
    /\ ConcIdle
    /\ counted = <<>>
    /\ posted = <<>>

NextGate == \E d \in {0, 1} : main_gate(d)

SpecGate == InitGate /\ [][NextGate]_vars

\* ------------------------------------ one run, with the platform's side

\* One run of main from its status query on, followed together with what
\* the platform saw of it: how each attempt that was sent again had ended,
\* and how many posts the POST /posts attempts created.
InitHttp ==
    /\ now = StartTime
    /\ file_ok = TRUE
    /\ file \in InitStates
    /\ state = file
    /\ pre = file
    /\ pc = "status"
    /\ runs = 1
    /\ attempts = 0
    /\ http = NoHttp
    /\ res = NoResult
    /\ t_today = 0
    /\ t_now = 0
    /\ reason = "none"
    /\ remain = 0
    /\ outcome = "running"
    /\ wait = 0
    /\ accepted = 0
    /\ tried = NoAttempt
    /\ hops = 0
    /\ GenIdle
    /\ ConcIdle
    /\ counted = <<>>
    /\ posted = <<>>

\* lines 50-60: an attempt ends with o and the request is sent again
call_retry ==
    \E o \in AttemptOutcomes :
        /\ retry_step(o)
        /\ tried' = o
        /\ IF is_redirect(o)
           THEN hops < MaxRedirects /\ hops' = hops + 1
           ELSE hops' = hops
        /\ \E c \in (IF pc = "post" THEN may_create(o) ELSE {0}) :
            accepted' = accepted + c
        /\ UNCHANGED <<gen, conc>>

\* lines 360-375: the last attempt of the submission ends with r
call_create_post ==
    \E r \in FinalResponses(attempts, PostBodies) :
        /\ create_post_step(r)
        /\ \E c \in may_create(r) : accepted' = accepted + c
        /\ UNCHANGED <<tried, hops, gen, conc>>

NextHttp ==
    \/ call_retry
    \/ main_ensure_claimed
    \/ main_gate(0)
    \/ main_generate_post
    \/ call_create_post

SpecHttp == InitHttp /\ [][NextHttp]_vars

\* ------------------------------------------- the generator on its inputs

\* Titles the model may write: short ones, blank ones, ones around the
\* maximum with and without spaces, with the only space near the start,
\* and with a newline as the only whitespace.
TitleTexts ==
    {<<>>, Words(<<2>>), <<Run(" ", 3)>>, Words(<<3, 4, 5>>),
     <<Run(" ", 2)>> \o Words(<<3, 4>>) \o <<Run("\n", 1)>>,
     Words(<<TITLE_MAX>>), Words(<<TITLE_MAX + 1>>),
     Words(<<TITLE_MAX - 1, 5>>), Words(<<TITLE_MAX, 5>>),
     Words(<<1, TITLE_MAX + 10>>), Words(<<30, 30, 30>>),
     <<Run("a", 40), Run("\n", 1), Run("a", 60)>>}

ContentTexts ==
    {<<>>, Words(<<2>>), <<Run(" ", 3)>>, Words(<<CONTENT_MIN - 1>>),
     Words(<<CONTENT_MIN>>), Words(<<10, 20, 30>>),
     Words(<<CONTENT_MAX>>), Words(<<CONTENT_MAX + 1>>),
     Words(<<700, 600>>), Words(<<5, CONTENT_MAX>>),
     <<Run("a", 700), Run("\n", 1), Run("a", 600)>>}

OtherValues ==
    {Val(t, <<>>) : t \in {"absent", "null", "zero", "number", "array"}}

Replies ==
    {Reply("invalid", t, Val("absent", <<>>), Val("absent", <<>>)) :
        t \in ContentTexts}
    \cup {Reply("other", <<>>, Val("absent", <<>>), Val("absent", <<>>))}
    \cup {Reply("object", <<>>, t, c) :
            t \in OtherValues \cup {Str(x) : x \in TitleTexts},
            c \in OtherValues \cup {Str(x) : x \in ContentTexts}}

Chats ==
    {Chat("ok", r) : r \in Replies}
    \cup {Chat(k, NoChat.reply) :
            k \in {"timeout", "network_error", "http_error"}}

InitGen ==
    /\ now = StartTime
    /\ file_ok = FALSE
    /\ file = FreshState(StartTime)
    /\ state = FreshState(StartTime)
    /\ pre = FreshState(StartTime)
    /\ pc = "generate"
    /\ runs = 1
    /\ attempts = 0
    /\ http = NoHttp
    /\ res = NoResult
    /\ t_today = StartTime
    /\ t_now = StartTime
    /\ reason = ALLOWED
    /\ remain = 0
    /\ outcome = "running"
    /\ wait = 0
    /\ accepted = 0
    /\ tried = NoAttempt
    /\ hops = 0
    /\ chat \in Chats
    /\ post = NoPost
    /\ ConcIdle
    /\ counted = <<>>
    /\ posted = <<>>

\* lines 352-353: generate_post returns the post, or raises and ends the run
generate_post_call ==
    /\ pc = "generate"
    /\ post' = generate_post(chat)
    /\ IF generate_post(chat).kind = "ok"
       THEN pc' = "post" /\ outcome' = outcome
       ELSE pc' = "done" /\ outcome' = "fatal"
    /\ UNCHANGED <<now, file_ok, file, state, runs, attempts, http, res, pre,
                   t_today, t_now, reason, remain, wait, posted>>
    /\ UNCHANGED <<platform, chat, conc>>

SpecGen == InitGen /\ [][generate_post_call]_vars

\* ------------------------------------------------ two runs side by side

\* Two processes run main against the same moltbot_state.json with nothing
\* between them: each loads, asks for the status, evaluates the gate,
\* generates, submits, counts and saves, and the steps of the two
\* interleave freely.  A step ends wherever the process waits for the
\* network or lets go of the file: save_state first empties the file
\* (line 117) and then writes it (line 118), and a load in between finds
\* no record to parse.
ConcStates ==
    [date_utc : {iso_today_utc(StartTime) - 1, iso_today_utc(StartTime)},
     posts_today : {0},
     last_post_at : {NULL}]
    \cup {[date_utc |-> iso_today_utc(StartTime),
           posts_today |-> POSTS_PER_DAY_CAP, last_post_at |-> NULL]}

\* number of decimal digits of n >= 0
RECURSIVE digits(_)
digits(n) == IF n < 10 THEN 1 ELSE 1 + digits(n \div 10)

\* number of characters json.dump writes for last_post_at: null, or the
\* quoted text; isoformat() (line 372) gives 19 characters for date and
\* time, 7 more when the instant is not at a whole second, and 6 for the
\* UTC offset (GARBAGE stands for the seven letters of its name)
dumped_last(last) ==
    IF last.kind = "null" THEN 4
    ELSE IF last.kind = "empty" THEN 2
    ELSE IF last.kind = "garbage" THEN 2 + 7
    ELSE 2 + 19 + (IF last.tod % TicksPerSecond = 0 THEN 0 ELSE 7)
           + (IF last.tz = "utc" THEN 6 ELSE 0)

\* line 118: number of characters json.dump(state, f, indent=2) writes
\* for a record: braces, keys, separators and line breaks (69 with the
\* ten characters of the date), the digits of posts_today, last_post_at
dumped_len(rec) == 69 + digits(rec.posts_today) + dumped_last(rec.last_post_at)

\* what the status query and the submission of such a run end with
ConcStatus ==
    {Response("response", 200, Body("json", "true", "absent", "claimed", -1)),
     Response("response", 401, NoBody)}
ConcPosts ==
    {Response("response", 200, Body("json", "true", "absent", "absent", -1)),
     Response("response", 500, NoBody)}

\* The count a record starts with stands for posts that earlier runs
\* counted into its day.
InitConc ==
    /\ now = StartTime
    /\ \/ file_ok = FALSE /\ file = FreshState(StartTime)
       \/ file_ok = TRUE /\ file \in ConcStates
    /\ counted = IF file_ok THEN [i \in 1..file.posts_today |-> file.date_utc]
                 ELSE <<>>
    /\ state = NoState
    /\ pre = NoState
    /\ pc = "idle"
    /\ InitCommon

\* the other process is in the middle of a run
Busy(p) == \E q \in Procs \ {p} : cpc[q] # "idle"

\* what the actions of the processes leave alone
conc_frame ==
    UNCHANGED <<now, state, pc, attempts, http, res, pre, t_today, t_now,
                reason, remain, outcome, wait, platform, gen>>

\* lines 326-327: process p starts and loads the state
conc_load(p) ==
    /\ cpc[p] = "idle"
    /\ runs < MaxRuns
    /\ runs' = runs + 1
    /\ cstate' = [cstate EXCEPT ![p] = load_state(file_ok, file, now)]
    /\ cpc' = [cpc EXCEPT ![p] = "status"]
    /\ overlapped' = (overlapped \/ Busy(p))
    /\ UNCHANGED <<file_ok, file, flen, cres, counted, posted>>
    /\ conc_frame

\* line 342: p's status query ends; ensure_claimed returns or raises
conc_ensure_claimed(p) ==
    /\ cpc[p] = "status"
    /\ \E r \in ConcStatus :
        IF ensure_claimed(molt_get(r))
        THEN /\ cpc' = [cpc EXCEPT ![p] = "gate"]
             /\ UNCHANGED cstate
        ELSE /\ cpc' = [cpc EXCEPT ![p] = "idle"]
             /\ cstate' = [cstate EXCEPT ![p] = NoState]
    /\ UNCHANGED <<file_ok, file, flen, runs, cres, counted, overlapped,
                   posted>>
    /\ conc_frame

\* lines 345-348: p's gate; on a denial p goes on to save its state
conc_gate(p) ==
    /\ cpc[p] = "gate"
    /\ LET g == can_post_now(cstate[p], now, now)
       IN  /\ cstate' = [cstate EXCEPT ![p] = g.state]
           /\ cpc' = [cpc EXCEPT ![p] = IF g.reason # ALLOWED THEN "save"
                                        ELSE "generate"]
    /\ UNCHANGED <<file_ok, file, flen, runs, cres, counted, overlapped,
                   posted>>
    /\ conc_frame

\* lines 352-353: generate_post returns p's post, or raises
conc_generate_post(p) ==
    /\ cpc[p] = "generate"
    /\ \/ /\ cpc' = [cpc EXCEPT ![p] = "post"]
          /\ UNCHANGED cstate
       \/ /\ cpc' = [cpc EXCEPT ![p] = "idle"]
          /\ cstate' = [cstate EXCEPT ![p] = NoState]
    /\ UNCHANGED <<file_ok, file, flen, runs, cres, counted, overlapped,
                   posted>>
    /\ conc_frame

\* line 360, the request: p's POST /posts reaches the platform, which
\* creates the post or not and answers with r
conc_send(p) ==
    /\ cpc[p] = "post"
    /\ \E r \in ConcPosts :
        /\ cres' = [cres EXCEPT ![p] = r]
        /\ \E c \in may_create(r) :
            posted' = IF c = 1 THEN Append(posted, now) ELSE posted
    /\ cpc' = [cpc EXCEPT ![p] = "sent"]
    /\ UNCHANGED <<file_ok, file, flen, runs, cstate, counted, overlapped>>
    /\ conc_frame

\* lines 360-372, the answer: create_post returns to p; on success p
\* counts the post in its state, otherwise the run ends
conc_create_post(p) ==
    /\ cpc[p] = "sent"
    /\ IF post_result(molt_post(cres[p])) = "posted"
       THEN /\ cstate' = [cstate EXCEPT
                             ![p] = success_mutation(cstate[p], now)]
            /\ counted' = Append(counted, cstate[p].date_utc)
            /\ cpc' = [cpc EXCEPT ![p] = "save"]
       ELSE /\ cstate' = [cstate EXCEPT ![p] = NoState]
            /\ cpc' = [cpc EXCEPT ![p] = "idle"]
            /\ UNCHANGED counted
    /\ cres' = [cres EXCEPT ![p] = NoResponse]
    /\ UNCHANGED <<file_ok, file, flen, runs, overlapped, posted>>
    /\ conc_frame

\* line 117: open(STATE_PATH, "w") empties the file
conc_save_open(p) ==
    /\ cpc[p] = "save"
    /\ file_ok' = FALSE
    /\ file' = NoState
    /\ flen' = 0
    /\ cpc' = [cpc EXCEPT ![p] = "write"]
    /\ UNCHANGED <<runs, cstate, cres, counted, overlapped, posted>>
    /\ conc_frame

\* line 118: json.dump and the close write p's record from the start of
\* the file, and the run ends.  Nothing cuts the file after the write:
\* when the other process has written a longer record since p emptied
\* the file, the end of that record stays behind p's, and the file does
\* not parse any more.
conc_save_write(p) ==
    /\ cpc[p] = "write"
    /\ IF dumped_len(cstate[p]) >= flen
       THEN /\ file_ok' = TRUE
            /\ file' = cstate[p]
            /\ flen' = dumped_len(cstate[p])
       ELSE /\ file_ok' = FALSE
            /\ file' = NoState
            /\ UNCHANGED flen
    /\ cpc' = [cpc EXCEPT ![p] = "idle"]
    /\ cstate' = [cstate EXCEPT ![p] = NoState]
    /\ UNCHANGED <<runs, cres, counted, overlapped, posted>>
    /\ conc_frame

\* time passes while every process is between runs or waits for the
\* network (the status answer, the model's text, the platform's answer);
\* the steps a process takes on its own are short against a clock that
\* advances by half a cooldown
conc_tick ==
    /\ \A p \in Procs : cpc[p] \in {"idle", "status", "generate", "sent"}
    /\ Tick

NextConc ==
    \/ conc_tick
    \/ \E p \in Procs :
        \/ conc_load(p)
        \/ conc_ensure_claimed(p)
        \/ conc_gate(p)
        \/ conc_generate_post(p)
        \/ conc_send(p)
        \/ conc_create_post(p)
        \/ conc_save_open(p)
        \/ conc_save_write(p)

SpecConc == InitConc /\ [][NextConc]_vars

\* ---------------------------------------------------------------- claims

\* can_post_now has been called in this run
Evaluated == reason # "none"
\* the day can_post_now took for today
Today == iso_today_utc(t_today)
\* now - last_post_at as line 306 computes it, for a parseable timestamp
Elapsed == t_now - fromisoformat(pre.last_post_at)
SameDay == pre.date_utc = Today

\* C4: whenever the record's date_utc differs from today, can_post_now
\* leaves date_utc = today, posts_today = 0 and last_post_at = null, and the
\* cap and cooldown checks see only those values: the result is Allowed,
\* whatever the counter and the timestamp of the previous day were.
C4_DayRolloverResets ==
    (Evaluated /\ ~SameDay) =>
        /\ state = [date_utc |-> Today, posts_today |-> 0,
                    last_post_at |-> NULL]
        /\ reason = ALLOWED

\* a record of another day, at the cap and inside the cooldown, was allowed
C4_Witness ==
    /\ Evaluated /\ ~SameDay
    /\ pre.posts_today >= POSTS_PER_DAY_CAP
    /\ timestamp_ok(pre.last_post_at) /\ Elapsed >= 0
    /\ Elapsed < CooldownTicks
    /\ reason = ALLOWED

\* C5: a record of today with posts_today >= cap is denied for the daily
\* cap, whatever last_post_at is.
C5_CapDenies ==
    (Evaluated /\ SameDay /\ pre.posts_today >= POSTS_PER_DAY_CAP) =>
        /\ reason = "daily_cap"
        /\ state = pre

\* denied for the cap although the last post is inside the cooldown
C5_Witness ==
    /\ Evaluated /\ SameDay
    /\ pre.posts_today = POSTS_PER_DAY_CAP
    /\ timestamp_ok(pre.last_post_at) /\ Elapsed < CooldownTicks
    /\ reason = "daily_cap"

\* C6: a record below the cap whose last post is at least the cooldown old
\* is allowed, and when the day has not rolled over posts_today and
\* last_post_at are left as they were.
C6_CooldownElapsedAllows ==
    (/\ Evaluated
     /\ pre.posts_today < POSTS_PER_DAY_CAP
     /\ timestamp_ok(pre.last_post_at)
     /\ Elapsed >= CooldownTicks) =>
        /\ reason = ALLOWED
        /\ SameDay => state = pre

\* allowed exactly when the cooldown has elapsed, same day, nothing changed
C6_Witness ==
    /\ Evaluated /\ SameDay
    /\ pre.posts_today = POSTS_PER_DAY_CAP - 1
    /\ timestamp_ok(pre.last_post_at) /\ Elapsed = CooldownTicks
    /\ reason = ALLOWED /\ state = pre

\* C7: a record of today below the cap whose parseable last post is less
\* than the cooldown old is denied, with a wait of cooldown - elapsed
\* seconds rounded down (the largest whole number of seconds not above it),
\* which is never negative.
C7_CooldownRemaining ==
    (/\ Evaluated /\ SameDay
     /\ pre.posts_today < POSTS_PER_DAY_CAP
     /\ timestamp_ok(pre.last_post_at)
     /\ Elapsed < CooldownTicks) =>
        /\ reason = "cooldown"
        /\ remain >= 0
        /\ remain * TicksPerSecond <= CooldownTicks - Elapsed
        /\ CooldownTicks - Elapsed < (remain + 1) * TicksPerSecond

\* a denial whose exact wait has a fractional part, here below one second
C7_Witness ==
    /\ Evaluated /\ SameDay
    /\ reason = "cooldown"
    /\ (CooldownTicks - Elapsed) % TicksPerSecond # 0
    /\ remain = 0

\* C8 as stated: a record of today below the cap whose last_post_at is
\* present but unparsable has it cleared to null and is allowed.
C8_Original ==
    (/\ Evaluated /\ SameDay
     /\ pre.posts_today < POSTS_PER_DAY_CAP
     /\ pre.last_post_at # NULL
     /\ ~timestamp_ok(pre.last_post_at)) =>
        /\ reason = ALLOWED
        /\ state.last_post_at = NULL

\* C8 amended: such a record is allowed; a non-empty unparsable
\* last_post_at is cleared to null, an empty string is left as it is (and
\* counts as absent); date_utc and posts_today are not touched.
C8_CorruptTimestampAllowed ==
    (/\ Evaluated /\ SameDay
     /\ pre.posts_today < POSTS_PER_DAY_CAP
     /\ pre.last_post_at # NULL
     /\ ~timestamp_ok(pre.last_post_at)) =>
        /\ reason = ALLOWED
        /\ state.last_post_at = IF pre.last_post_at = EMPTY THEN EMPTY ELSE NULL
        /\ state.posts_today = pre.posts_today
        /\ state.date_utc = pre.date_utc

\* a garbage timestamp was cleared and the attempt allowed
C8_Witness ==
    /\ Evaluated /\ SameDay
    /\ pre.last_post_at = GARBAGE
    /\ state.last_post_at = NULL
    /\ reason = ALLOWED

\* the confirmed posts submitted on calendar day d
PostsOn(d) == {i \in DOMAIN posted : iso_today_utc(posted[i]) = d}

\* C1: over any sequence of runs, the confirmed posts submitted within one
\* UTC calendar day never number more than the daily cap, runs that pass
\* the gate before midnight and post after it included.
C1_Original ==
    \A i \in DOMAIN posted :
        Cardinality(PostsOn(iso_today_utc(posted[i]))) <= POSTS_PER_DAY_CAP

\* C2: any two consecutive confirmed posts are at least the cooldown apart,
\* also across a day rollover.
C2_Original ==
    \A i \in DOMAIN posted :
        i > 1 => posted[i] - posted[i - 1] >= CooldownTicks

\* C3: from a record within the cap, posts_today never exceeds the cap:
\* not in the file, and not in main's state after an Allowed gate result
\* or after the success mutation that follows it.
C3_PostsTodayWithinCap ==
    /\ file_ok => file.posts_today <= POSTS_PER_DAY_CAP
    /\ reason = ALLOWED => state.posts_today <= POSTS_PER_DAY_CAP

\* a confirmed post brought the persisted counter up to the cap
C3_Witness ==
    /\ pc = "done" /\ outcome = "posted"
    /\ reason = ALLOWED
    /\ file_ok /\ file.posts_today = POSTS_PER_DAY_CAP

\* C9: the gate is evaluated (and a post generated or submitted) only after
\* the status query of the same run was answered with status "claimed";
\* an HTTP error status, a timeout, a network error or a non-JSON reply
\* aborts the run before the gate.
C9_Original ==
    pc = "gate" =>
        /\ http.call = "status"
        /\ http.kind = "response"
        /\ http.code < 400
        /\ res.kind = "dict"
        /\ res.status = "claimed"

\* C10: a submission that ends with a 429 response after all retries ends
\* the run as rate limited (not fatal, an advisory wait printed) and
\* posts_today is not incremented, whatever the 429 payload carries.
C10_Original ==
    (/\ pc = "done"
     /\ http.call = "post"
     /\ http.kind = "response"
     /\ http.code = 429) =>
        /\ outcome = "rate_limited"
        /\ wait > 0
        /\ state = can_post_now(pre, t_today, t_now).state

\* C11: a 401 is never answered with another attempt, and the call that
\* receives it returns the unauthorized failure, which ends the run as
\* fatal with the state file as it was.
C11_UnauthorizedNotRetried ==
    /\ ~(tried.kind = "response" /\ tried.code = 401)
    /\ (pc = "done" /\ http.kind = "response" /\ http.code = 401)
        => /\ res = failure("unauthorized")
           /\ outcome = "fatal"
           /\ file = pre

C11_Witness ==
    /\ pc = "done"
    /\ http.call = "post"
    /\ http.kind = "response"
    /\ http.code = 401
    /\ tried.kind = "response"

\* C12: a call makes at most 3 attempts, the first included; it is sent
\* again only after a connection failure, a read timeout or a status of
\* RETRY_STATUS; and what it returns is a classified result (a dict).
C12_Original ==
    /\ pc \in {"status", "post"} => attempts + 1 <= 3
    /\ tried # NoAttempt =>
           \/ tried.kind \in {"connect_error", "connect_timeout",
                             "read_timeout"}
           \/ tried.kind = "response" /\ tried.code \in RETRY_STATUS
    /\ http # NoHttp => res.kind = "dict"

\* C19: the platform creates at most one post for a run, and a run for
\* which it created one ends with the post counted and saved.
C19_Original ==
    /\ accepted <= 1
    /\ (pc = "done" /\ accepted >= 1)
        => /\ outcome = "posted"
           /\ file = state
           /\ state.last_post_at = isoformat(now)

\* C13: a run in which the gate reset the day ends with the reset in the
\* state file, whatever follows the gate.
C13_Original ==
    (pc = "done" /\ Evaluated /\ pre.date_utc # Today)
        => /\ file_ok
           /\ file.date_utc = Today
           /\ file.posts_today = state.posts_today

\* a call of this run ended with a timeout, a network error or an error
\* status other than 429
UpstreamFailed ==
    /\ http.call \in {"status", "post"}
    /\ \/ http.kind \in {"timeout", "network_error"}
       \/ http.kind = "response" /\ http.code >= 400 /\ http.code # 429

\* C14: a run one of whose upstream calls failed is aborted, and the state
\* file is what the run loaded.
C14_Original ==
    (pc = "done" /\ (UpstreamFailed \/ outcome = "fatal"))
        => /\ outcome = "fatal"
           /\ file_ok => file = pre

\* C15: the step that takes the submission as successful adds exactly 1
\* to posts_today, sets last_post_at to the time of the step and saves
\* the record; and no step other than it and the gate changes the
\* counters of a run or the state file.
C15_SuccessMutationOnlyWrite ==
    [][/\ (pc = "post" /\ outcome' = "posted")
           => /\ state' = [state EXCEPT
                              !.posts_today = state.posts_today + 1,
                              !.last_post_at = isoformat(now)]
              /\ file_ok'
              /\ file' = state'
       /\ (file' # file \/ file_ok' # file_ok)
           => \/ pc = "gate" /\ file' = can_post_now(state, now, now').state
              \/ pc = "post" /\ outcome' = "posted"
       /\ (pc \in {"status", "gate", "generate", "post"} /\ state' # state)
           => \/ pc = "gate" /\ state' = can_post_now(state, now, now').state
              \/ pc = "post" /\ outcome' = "posted"]_vars

C15_Witness ==
    /\ pc = "done"
    /\ outcome = "posted"
    /\ state.posts_today = pre.posts_today + 1
    /\ state.last_post_at = isoformat(now)
    /\ file = state

\* C16: whatever text the model replies with, generate_post returns a
\* title and a content; it raises only when the model call failed.
C16_Original ==
    post # NoPost => (post.kind = "ok" <=> chat.kind = "ok")

\* the title and the content before lines 262-265 cut them
RawTitle ==
    strip(IF chat.reply.json = "object" /\ is_true(chat.reply.title)
          THEN chat.reply.title.s ELSE DEFAULT_TITLE)
RawContent ==
    strip(IF chat.reply.json = "invalid" THEN chat.reply.text
          ELSE IF is_true(chat.reply.content) THEN chat.reply.content.s
          ELSE <<>>)

\* the last character of s, and the one that follows the first k of t
LastChar(s) == IF s = <<>> THEN "" ELSE s[Len(s)].c
CharAfter(t, k) == LastChar(take(t, k + 1))
HasWhitespace(s) == \E i \in DOMAIN s : s[i].c \in Whitespace

\* t was cut to r at a word boundary: r is a prefix of t with the
\* ellipsis added, and t goes on with whitespace where r stops
CutAtBoundary(t, r, max) ==
    LET kept == len(r) - 1
    IN  /\ r = add_ellipsis(take(t, kept))
        /\ HasWhitespace(take(t, max)) => CharAfter(t, kept) \in Whitespace

\* C17: a title of more than 80 characters and a content of more than
\* 1200 come out no longer than that, ellipsis included, and cut where
\* whitespace stands if the first 80 (1200) characters have any.
C17_Original ==
    (post.kind = "ok")
        => /\ len(RawTitle) > TITLE_MAX
              => /\ len(post.title) <= TITLE_MAX
                 /\ CutAtBoundary(RawTitle, post.title, TITLE_MAX)
           /\ (len(RawContent) > CONTENT_MAX
                /\ post.content # FALLBACK)
              => /\ len(post.content) <= CONTENT_MAX
                 /\ CutAtBoundary(RawContent, post.content, CONTENT_MAX)

\* C18: every post generate_post returns has a title of 3 to 80
\* characters and a content of 20 to 1200.
C18_Original ==
    (post.kind = "ok")
        => /\ len(post.title) >= 3
           /\ len(post.title) <= TITLE_MAX
           /\ len(post.content) >= CONTENT_MIN
           /\ len(post.content) <= CONTENT_MAX

\* the posts the runs counted into the record of day d
CountedOn(d) == {i \in DOMAIN counted : counted[i] = d}

\* no run is under way
AllIdle == \A p \in Procs : cpc[p] = "idle"

\* C20: also when two runs overlap, once they have ended the persisted
\* posts_today is the number of confirmed posts since the record's day
\* began, and no UTC day has more confirmed posts than the cap.
C20_Original ==
    AllIdle
        => /\ file_ok
              => file.posts_today = Cardinality(CountedOn(file.date_utc))
           /\ \A i \in DOMAIN posted :
                  Cardinality(PostsOn(iso_today_utc(posted[i])))
                      <= POSTS_PER_DAY_CAP

\* C20, amended: as long as no run has started while another was under
\* way, after every run the persisted posts_today is the number of posts
\* counted into the record's day, and it is within the cap.
C20_SequentialRunsLoseNoUpdate ==
    (~overlapped /\ AllIdle)
        => /\ file_ok
              => /\ file.posts_today = Cardinality(CountedOn(file.date_utc))
                 /\ file.posts_today <= POSTS_PER_DAY_CAP
           /\ ~file_ok => counted = <<>>

C20_Witness ==
    /\ ~overlapped
    /\ AllIdle
    /\ file_ok
    /\ file.posts_today = 2
    /\ Cardinality(CountedOn(file.date_utc)) = 2

====
